---- MODULE Spec2Model ----
(***************************************************************************)
(* Model of the chunked transcription pipeline of pt-cli                   *)
(* (src/src/lib/transcription.ts): transcribeAudioFile / transcribeAudio   *)
(* wrap transcribeFromPath, which probes the duration, splits the audio    *)
(* into chunks with blocking ffmpeg calls, then transcribes the chunks     *)
(* through pLimit(MAX_CONCURRENCY) and Promise.all, and merges the         *)
(* results.                                                                *)
(*                                                                         *)
(* Execution model: one JavaScript thread.  The synchronous prefix (mkdir, *)
(* probe, split loop, pLimit/map) is a sequence of steps on pc.  After the *)
(* first await, a step is one I/O completion (a response of the remote     *)
(* service) followed by the promise jobs it triggers.  Promise jobs run    *)
(* before the next I/O completion is delivered, and p-limit's next() (the  *)
(* continuation of `await result` inside p-limit) is registered on a       *)
(* chunk's promise before the reaction that feeds Promise.all, so          *)
(*   StartNext  has priority over  AllResolve / AllReject / Finally,       *)
(* and these have priority over the delivery of the next response.         *)
(*                                                                         *)
(* Durations are integers (seconds in a scaled unit); the times of         *)
(* segments and subtitle entries are JavaScript numbers of seconds kept    *)
(* in fixed point, as a count of ticks of 1/TicksPerSecond second.  A text *)
(* is a sequence of tokens, the token of the separator ' ' included.       *)
(*                                                                         *)
(* Four specifications share the module:                                   *)
(*   Spec      one run of an entry point, called by a user of the library  *)
(*             or by transcribeCommand (src/src/commands/transcribe.ts);   *)
(*   SpecLive  Spec with weak fairness of Next, for progress properties;   *)
(*   SpecFmt   formatSrtTime (src/src/lib/srt.ts) applied to a time;       *)
(*   SpecRuns  two runs of transcribeAudioFile in one working directory,   *)
(*             followed on the file system only.                           *)
(***************************************************************************)
EXTENDS Integers, Sequences, FiniteSets

\* ---------------------------------------------------------------- bounds
\* largest duration ffprobe reports in the model
MaxDuration == 5
\* cap on the iterations of the split loop when totalChunks is Infinity
MaxSplits == 6
\* largest number of segments the recognition service returns for a chunk
MaxSegs == 2

\* numbers of segments of a chunk explored: none, one and the largest
SegmentCounts == {0, 1, MaxSegs}

\* ------------------------------------------------------------- constants
MAX_CONCURRENCY == 3

\* the default of options.chunkDuration, 300 s, in the scaled unit
DefaultChunkDuration == 2

\* values of options.chunkDuration explored
ChunkDurations == {-1, 0, 1, DefaultChunkDuration}

\* values of options.language explored: the default, the code formatWithAI
\* has a prompt of its own for, and the two names of Chinese
Languages == {"auto", "en", "zh", "chinese"}

VARIABLES
    entry,          \* "file": transcribeAudioFile, "buffer": transcribeAudio
    needSrt,        \* outputFormat === 'srt'
    language,       \* options.language
    chunkDuration,  \* options.chunkDuration
    pc,             \* position of the entry point / transcribeFromPath
    dirExists,      \* the session's tempDir exists on disk
    files,          \* chunk files present in tempDir (chunk i is chunk-(i+1))
    inputWritten,   \* transcribeAudio: input<ext> present in tempDir
    totalDuration,  \* parseFloat of ffprobe's output
    totalChunks,    \* Math.ceil(totalDuration / chunkDuration), see CeilDiv
    chunkPaths,     \* the array chunkPaths, as the sequence of chunk indices
    splitI,         \* the loop variable i of the split loop
    queue,          \* p-limit's queue of pending chunk tasks
    activeCount,    \* p-limit's activeCount
    st,             \* per chunk: "none","queued","recog","format","done","failed"
    rawText,        \* per chunk: text returned by the recognition call
    fmtOutcome,     \* per chunk: outcome of the formatting call
    chunkResult,    \* per chunk: the ChunkResult its promise resolved with
    completedCount, \* the shared counter completedCount
    progressLog,    \* the calls of onProgress, in order: type and progress
                    \* (the transcript field is not kept: no property reads it)
    issued,         \* chunk indices in the order their recognition requests were issued
    fmtCalls,       \* per chunk: number of formatting requests issued for it
    requests,       \* per chunk: the requests sent to the remote services for
                    \* it, in order, with the parameters that were passed
    outOfOrder,     \* some chunk completed before a chunk of lower index
    splitLog,       \* chunk indices in the order ffmpeg was invoked for them
    error,          \* the error that rejected the run ("none" if none)
    outcome,        \* "none", "returned", "thrown": how the entry point settled
    result,         \* the TranscriptionResult returned (text only)
    cliPc,          \* position of transcribeCommand; "off": the entry point
                    \* is called by a user of the library
    cliError,       \* the error transcribeCommand caught ("none" if none)
    optSummary,     \* options.summary
    optOutput,      \* options.output is set
    summaryDone,    \* generateSummary has returned a summary
    fileWritten,    \* the file options.output has been created or written
    printed,        \* the output has been printed with console.log
    exitCode,       \* << >> while the process runs, then << its exit status >>
    fmtIn,          \* formatSrtTime on its own: the argument seconds, in ticks
    fmtOut,         \* formatSrtTime on its own: the strings returned so far
    runs,           \* concurrent runs: per run its position, its sessionId,
                    \* the chunk files it has made and its loop index
    disk,           \* concurrent runs: the directories and the files that
                    \* exist under process.cwd()
    drawn           \* concurrent runs: the identifiers uuidv4 has returned

pipelineVars == <<entry, needSrt, language, chunkDuration, pc, dirExists,
                  files, inputWritten, totalDuration, totalChunks, chunkPaths,
                  splitI, queue, activeCount, st, rawText, fmtOutcome,
                  chunkResult, completedCount, progressLog, issued, fmtCalls,
                  requests, outOfOrder, splitLog, error, outcome, result>>

\* the variables of the operations that are exercised outside a run of the
\* pipeline
fmtVars == <<fmtIn, fmtOut>>
runsVars == <<runs, disk, drawn>>
outsideVars == <<fmtVars, runsVars>>

\* the variables of transcribeCommand
cliVars == <<cliPc, cliError, optSummary, optOutput, summaryDone, fileWritten,
             printed, exitCode>>

vars == <<pipelineVars, cliVars, outsideVars>>

\* ------------------------------------------------------------ pure parts

\* variant: Math.floor in place of Math.ceil
FloorDiv(t, c) ==
    IF c = 0
    THEN IF t = 0 THEN [kind |-> "nan", n |-> 0]
         ELSE IF t > 0 THEN [kind |-> "inf", n |-> 0]
         ELSE [kind |-> "ninf", n |-> 0]
    ELSE IF c > 0
         THEN [kind |-> "num", n |-> t \div c]
         ELSE [kind |-> "num", n |-> (-t) \div (-c)]

\* Math.ceil(totalDuration / chunkDuration) on JavaScript numbers: a finite
\* number, Infinity (x / 0 with x > 0) or NaN (0 / 0)
CeilDiv(t, c) ==
    IF c = 0
    THEN IF t = 0 THEN [kind |-> "nan", n |-> 0]
         ELSE IF t > 0 THEN [kind |-> "inf", n |-> 0]
         ELSE [kind |-> "ninf", n |-> 0]
    ELSE IF c > 0
         THEN [kind |-> "num", n |-> -((-t) \div c)]
         ELSE [kind |-> "num", n |-> -(t \div (-c))]

\* variant: the loop stops one chunk early
LoopLtOffByOne(i, tc) ==
    \/ tc.kind = "inf"
    \/ tc.kind = "num" /\ i < tc.n - 1

\* the loop condition  i < totalChunks  (false for NaN and -Infinity)
LoopLt(i, tc) ==
    \/ tc.kind = "inf"
    \/ tc.kind = "num" /\ i < tc.n

\* variant: the offset is computed from the one-based chunk number
SplitStartOneBased(i, chunkDur) == (i + 1) * chunkDur

\* const start = i * chunkDuration, the -ss argument of ffmpeg
SplitStart(i, chunkDur) == i * chunkDur

\* tokens of the texts the remote services return for chunk i
RawText(i) == << [k |-> "raw", c |-> i, s |-> 0] >>
FmtContent(i) == << [k |-> "fmt", c |-> i, s |-> 0] >>
Space == << [k |-> "sp", c |-> -1, s |-> 0] >>

\* resolution of the times of segments and subtitle entries
TicksPerSecond == 10000

\* a number of seconds as a time in ticks
Secs(x) == x * TicksPerSecond

\* length in seconds of the audio in the file of chunk i: ffmpeg copies at
\* most chunkDur seconds from start and stops at the end of the input
ChunkLength(i, total, chunkDur) ==
    IF total - SplitStart(i, chunkDur) < chunkDur
    THEN total - SplitStart(i, chunkDur)
    ELSE chunkDur

\* response.segments of chunk i when the service returns n segments for
\* audio of len seconds: the segments are in order, in chunk-local time,
\* they divide the audio evenly, and each text starts with a space
Segments(i, n, len) ==
    [s \in 1..n |-> [start |-> ((s - 1) * Secs(len)) \div n,
                     end |-> (s * Secs(len)) \div n,
                     text |-> Space \o << [k |-> "seg", c |-> i, s |-> s] >>]]

\* String.prototype.trim on a text: leading and trailing spaces removed
RECURSIVE TrimLeft(_)
TrimLeft(t) ==
    IF t = << >> THEN << >>
    ELSE IF << Head(t) >> = Space THEN TrimLeft(Tail(t))
    ELSE t

RECURSIVE TrimRight(_)
TrimRight(t) ==
    IF t = << >> THEN << >>
    ELSE IF << t[Len(t)] >> = Space THEN TrimRight(SubSeq(t, 1, Len(t) - 1))
    ELSE t

Trim(t) == TrimRight(TrimLeft(t))

\* variant: the offset is computed from the one-based chunk number
ConvertSegmentsOneBased(segments, chunkIndex, chunkDur, startIndex) ==
    LET timeOffset == Secs((chunkIndex + 1) * chunkDur)
    IN  [s \in 1..Len(segments) |->
            [index |-> startIndex + (s - 1),
             startTime |-> segments[s].start + timeOffset,
             endTime |-> segments[s].end + timeOffset,
             text |-> Trim(segments[s].text)]]

\* convertSegmentsToSrtEntries (srt.ts)
ConvertSegmentsToSrtEntries(segments, chunkIndex, chunkDur, startIndex) ==
    LET timeOffset == Secs(chunkIndex * chunkDur)
    IN  [s \in 1..Len(segments) |->
            [index |-> startIndex + (s - 1),
             startTime |-> segments[s].start + timeOffset,
             endTime |-> segments[s].end + timeOffset,
             text |-> Trim(segments[s].text)]]

\* Number.prototype.toString of a non-negative integer: its decimal digits
RECURSIVE ToDigits(_)
ToDigits(n) ==
    IF n < 10 THEN << n >>
    ELSE ToDigits(n \div 10) \o << n % 10 >>

\* String.prototype.padStart(w, '0'): zeros in front up to the width w; a
\* longer string is left as it is
RECURSIVE PadStart(_, _)
PadStart(ds, w) ==
    IF Len(ds) >= w THEN ds
    ELSE PadStart(<< 0 >> \o ds, w)

\* Math.round((seconds % 1) * 1000) for a time t in ticks
RoundMillis(t) ==
    (((t % TicksPerSecond) * 1000) + (TicksPerSecond \div 2))
        \div TicksPerSecond

\* formatSrtTime (srt.ts) on a time t in ticks: the digit strings of the
\* four fields of HH:MM:SS,mmm.  Math.floor on the hours, minutes and
\* seconds, Math.round on the milliseconds
FormatSrtTime(t) ==
    [hours |-> PadStart(ToDigits(t \div Secs(3600)), 2),
     minutes |-> PadStart(ToDigits((t % Secs(3600)) \div Secs(60)), 2),
     secs |-> PadStart(ToDigits((t % Secs(60)) \div Secs(1)), 2),
     millis |-> PadStart(ToDigits(RoundMillis(t)), 3)]

\* entriesToSrtString (srt.ts): one block per entry, in the order given
EntriesToSrtString(entries) ==
    [e \in 1..Len(entries) |->
        [index |-> entries[e].index,
         from |-> FormatSrtTime(entries[e].startTime),
         to |-> FormatSrtTime(entries[e].endTime),
         text |-> entries[e].text]]

\* the value undefined of an optional parameter
Undefined == "undefined"

\* variant: only the code 'zh' counts as Chinese
IsChineseZhOnly(lang) == lang = "zh"

\* isChinese
IsChinese(lang) == lang = "zh" \/ lang = "chinese"

\* const isAutoMode = language === 'auto'
IsAutoMode(lang) == lang = "auto"

\* getLanguagePrompt: the Mandarin hint for Chinese, undefined otherwise
GetLanguagePrompt(lang) ==
    IF IsChinese(lang) THEN "mandarin-hint" ELSE Undefined

\* langParam and promptParam of transcribeChunk
LangParam(lang) == IF IsAutoMode(lang) THEN Undefined ELSE lang
PromptParam(lang) ==
    IF IsAutoMode(lang) THEN Undefined ELSE GetLanguagePrompt(lang)

\* variant: every recognition request asks for plain text
ResponseFormatText(srt) == "text"

\* response_format of the recognition request in the two branches
ResponseFormat(srt) == IF srt THEN "verbose_json" ELSE "text"

\* the argument of client.audio.transcriptions.create for chunk i
RecognitionRequest(i, srt, lang) ==
    [kind |-> "recognition",
     file |-> i,
     response_format |-> ResponseFormat(srt),
     language |-> LangParam(lang),
     prompt |-> PromptParam(lang)]

\* systemPrompt and userPrompt of formatWithAI: the Chinese instructions,
\* the English-transcript instructions, or the generic ones
SystemPrompt(lang) ==
    IF IsChinese(lang) THEN "zh-formatter"
    ELSE IF lang = "en" THEN "en-formatter"
    ELSE "generic-formatter"

UserPrompt(lang, text) ==
    [lead |-> IF IsChinese(lang) THEN "zh-please-format"
              ELSE "please-format",
     text |-> text]

\* the argument of client.chat.completions.create in formatWithAI
FormattingRequest(text, lang) ==
    [kind |-> "formatting",
     system |-> SystemPrompt(lang),
     user |-> UserPrompt(lang, text)]

\* variant: the process ends with status 0 after a failure too
ExitStatusZero(failed) == 0

\* the exit status of the process: process.exit(1) in the catch block of
\* transcribeCommand, 0 when the command returns and the process ends
ExitStatus(failed) == IF failed THEN 1 ELSE 0

\* variant: the catch block returns an empty string
FormatWithAIEmptyOnError(text, o, content) ==
    IF o = "failed" THEN << >>
    ELSE IF content # << >> THEN content
    ELSE text

\* formatWithAI: the content of the reply, or the input text when the call
\* throws or the content is empty or absent (`content || text`)
FormatWithAI(text, o, content) ==
    IF o = "failed" THEN text
    ELSE IF content # << >> THEN content
    ELSE text

\* variant: the comparator is reversed
CompareIndexReversed(a, b) == b.index - a.index

\* the comparator of results.sort: a.index - b.index
CompareIndex(a, b) == a.index - b.index

\* Array.prototype.sort with CompareIndex (stable insertion sort)
RECURSIVE InsertByIndex(_, _)
InsertByIndex(r, s) ==
    IF s = << >> THEN << r >>
    ELSE IF CompareIndex(r, Head(s)) < 0 THEN << r >> \o s
    ELSE << Head(s) >> \o InsertByIndex(r, Tail(s))

RECURSIVE SortByIndex(_)
SortByIndex(s) ==
    IF s = << >> THEN << >>
    ELSE InsertByIndex(Head(s), SortByIndex(Tail(s)))

\* Array.prototype.join(' ') over the texts
RECURSIVE JoinSpace(_)
JoinSpace(ts) ==
    IF ts = << >> THEN << >>
    ELSE IF Len(ts) = 1 THEN ts[1]
    ELSE ts[1] \o Space \o JoinSpace(Tail(ts))

\* results.map(r => r.text).join(' ') after results.sort(...)
MergeText(results) ==
    LET sorted == SortByIndex(results)
    IN  JoinSpace([k \in 1..Len(sorted) |-> sorted[k].text])

\* variant: the entries keep the numbers their chunk gave them
RECURSIVE RenumberKeepLocal(_, _)
RenumberKeepLocal(sorted, globalIndex) ==
    IF sorted = << >> THEN << >>
    ELSE Head(sorted).srtEntries
             \o RenumberKeepLocal(Tail(sorted), globalIndex)

\* the renumbering loop: the entries of the sorted results in order, index
\* taken from the counter globalIndex that starts at 1
RECURSIVE Renumber(_, _)
Renumber(sorted, globalIndex) ==
    IF sorted = << >> THEN << >>
    ELSE LET es == Head(sorted).srtEntries
         IN  [e \in 1..Len(es) |->
                 [es[e] EXCEPT !.index = globalIndex + (e - 1)]]
             \o Renumber(Tail(sorted), globalIndex + Len(es))

\* result.srt
MergeSrt(results) == EntriesToSrtString(Renumber(SortByIndex(results), 1))

\* the value Promise.all resolves with: the values in the order of the input
\* array chunkPaths.map(...), whatever the order of completion
PromiseAllValues(cr, n) == [k \in 1..n |-> cr[k - 1]]

\* variant: the limit test is off by one
SlotFreeOffByOne(active) == active <= MAX_CONCURRENCY

\* p-limit: a task may start when activeCount < concurrency
SlotFree(active) == active < MAX_CONCURRENCY

\* variant: the pending tasks are kept on a stack
DequeueLast(q) == [task |-> q[Len(q)], rest |-> SubSeq(q, 1, Len(q) - 1)]

\* p-limit's queue is first in, first out
DequeueTask(q) == [task |-> Head(q), rest |-> Tail(q)]

\* variant: the cleanup sits at the end of the try block
RunsCleanupOnReturnOnly(p) == p = "return"

\* the cleanup sits in `finally`: it runs when the try block returned a
\* value (p = "return") and when it threw (p = "catch")
RunsCleanup(p) == p \in {"return", "catch"}

\* variant: the notification reports the chunk's position
ProgressCurrentFromIndex(count, index) == index + 1

\* progress.current of a 'partial' notification
ProgressCurrent(count, index) == count

\* ------------------------------------------------------------------ state

NumTasks == Len(chunkPaths)
Chunks == DOMAIN st

\* no call of formatSrtTime on its own is made
FmtIdle ==
    /\ fmtIn = 0
    /\ fmtOut = << >>

\* no concurrent runs are followed
RunsIdle ==
    /\ runs = << >>
    /\ disk = [dirs |-> {}, files |-> {}]
    /\ drawn = {}

\* nothing outside the pipeline is going on
OutsideIdle == FmtIdle /\ RunsIdle

\* the state of a run that has not begun
Fresh ==
    /\ pc = "start"
    /\ dirExists = FALSE
    /\ files = {}
    /\ inputWritten = FALSE
    /\ totalDuration = 0
    /\ totalChunks = [kind |-> "num", n |-> 0]
    /\ chunkPaths = << >>
    /\ splitI = 0
    /\ queue = << >>
    /\ activeCount = 0
    /\ st = << >>
    /\ rawText = << >>
    /\ fmtOutcome = << >>
    /\ chunkResult = << >>
    /\ completedCount = 0
    /\ progressLog = << >>
    /\ issued = << >>
    /\ fmtCalls = << >>
    /\ requests = << >>
    /\ outOfOrder = FALSE
    /\ splitLog = << >>
    /\ error = "none"
    /\ outcome = "none"
    /\ result = [text |-> << >>, srt |-> << >>]

\* the entry point is called by a user of the library, not by the command
CliOff ==
    /\ cliPc = "off"
    /\ cliError = "none"
    /\ optSummary = FALSE
    /\ optOutput = FALSE
    /\ summaryDone = FALSE
    /\ fileWritten = FALSE
    /\ printed = FALSE
    /\ exitCode = << >>

\* transcribeCommand is about to run: it passes language and outputFormat
\* and leaves chunkDuration to its default; the language is the default of
\* the command line
CliStarting ==
    /\ cliPc = "start"
    /\ cliError = "none"
    /\ optSummary \in BOOLEAN
    /\ optOutput \in BOOLEAN
    /\ summaryDone = FALSE
    /\ fileWritten = FALSE
    /\ printed = FALSE
    /\ exitCode = << >>
    /\ chunkDuration = DefaultChunkDuration
    /\ language = "auto"

\* the options explored: every chunkDuration with the default language,
\* and every language with the default chunkDuration
Init ==
    /\ OutsideIdle
    /\ entry \in {"file", "buffer"}
    /\ needSrt \in BOOLEAN
    /\ language \in Languages
    /\ chunkDuration \in ChunkDurations
    /\ language = "auto" \/ chunkDuration = DefaultChunkDuration
    /\ CliOff \/ CliStarting
    /\ Fresh

\* ---------------------------------------------------- synchronous prefix

\* transcribeAudioFile / transcribeAudio: uuid, existsSync + mkdirSync
MkDir ==
    /\ pc = "start"
    /\ cliPc \in {"off", "pipeline"}
    /\ \E ok \in BOOLEAN :
         IF ok
         THEN /\ dirExists' = TRUE
              /\ pc' = IF entry = "buffer" THEN "write" ELSE "probe"
              /\ error' = error
         ELSE /\ dirExists' = dirExists
              /\ pc' = "catch"
              /\ error' = "mkdir"
    /\ UNCHANGED requests
    /\ UNCHANGED <<cliVars, outsideVars>>
    /\ UNCHANGED <<entry, needSrt, language, chunkDuration, files, inputWritten,
                   totalDuration, totalChunks, chunkPaths, splitI, queue,
                   activeCount, st, rawText, fmtOutcome, chunkResult,
                   completedCount, progressLog, issued, fmtCalls, outOfOrder, splitLog,
                   outcome, result>>

\* transcribeAudio: writeFileSync(inputPath, audioBuffer)
WriteInput ==
    /\ pc = "write"
    /\ \E ok \in BOOLEAN :
         IF ok
         THEN /\ inputWritten' = TRUE
              /\ pc' = "probe"
              /\ error' = error
         ELSE /\ inputWritten' = inputWritten
              /\ pc' = "catch"
              /\ error' = "write"
    /\ UNCHANGED requests
    /\ UNCHANGED <<cliVars, outsideVars>>
    /\ UNCHANGED <<entry, needSrt, language, chunkDuration, dirExists, files,
                   totalDuration, totalChunks, chunkPaths, splitI, queue,
                   activeCount, st, rawText, fmtOutcome, chunkResult,
                   completedCount, progressLog, issued, fmtCalls, outOfOrder, splitLog,
                   outcome, result>>

\* transcribeFromPath up to the split loop: createOpenAIClient, ffprobe,
\* Math.ceil, the 'progress' notification
Probe ==
    /\ pc = "probe"
    /\ \/ /\ \E e \in {"client", "probe"} : error' = e
          /\ pc' = "catch"
          /\ UNCHANGED <<totalDuration, totalChunks, progressLog>>
       \/ \E d \in 0..MaxDuration :
            /\ totalDuration' = d
            /\ totalChunks' = CeilDiv(d, chunkDuration)
            /\ progressLog' = Append(progressLog,
                   [type |-> "progress", current |-> 0,
                    total |-> totalChunks'])
            /\ pc' = "split"
            /\ error' = error
    /\ UNCHANGED requests
    /\ UNCHANGED <<cliVars, outsideVars>>
    /\ UNCHANGED <<entry, needSrt, language, chunkDuration, dirExists, files,
                   inputWritten, chunkPaths, splitI, queue, activeCount, st,
                   rawText, fmtOutcome, chunkResult, completedCount, issued,
                   fmtCalls, outOfOrder, splitLog, outcome, result>>

\* one iteration of the split loop: execSync(ffmpeg -ss start -t chunkDuration)
Split ==
    /\ pc = "split"
    /\ LoopLt(splitI, totalChunks)
    /\ totalChunks.kind = "inf" => splitI < MaxSplits
    /\ splitLog' = Append(splitLog, [index |-> splitI,
                                     start |-> SplitStart(splitI, chunkDuration),
                                     t |-> chunkDuration])
    /\ \/ /\ files' = files \cup {splitI}
          /\ chunkPaths' = Append(chunkPaths, splitI)
          /\ splitI' = splitI + 1
          /\ UNCHANGED <<pc, error>>
       \/ /\ \E partial \in BOOLEAN :
               files' = IF partial THEN files \cup {splitI} ELSE files
          /\ pc' = "catch"
          /\ error' = "split"
          /\ UNCHANGED <<chunkPaths, splitI>>
    /\ UNCHANGED requests
    /\ UNCHANGED <<cliVars, outsideVars>>
    /\ UNCHANGED <<entry, needSrt, language, chunkDuration, dirExists, inputWritten,
                   totalDuration, totalChunks, queue, activeCount, st,
                   rawText, fmtOutcome, chunkResult, completedCount,
                   progressLog, issued, fmtCalls, outOfOrder, outcome, result>>

\* the split loop when totalChunks is Infinity and i has passed MaxSplits:
\* the loop condition stays true and ffmpeg is invoked again and again.
\* The chunk files of these iterations are not recorded, and of i only the
\* parity is kept, so that the endless loop is a cycle of the state graph
SplitBeyond ==
    /\ pc = "split"
    /\ LoopLt(splitI, totalChunks)
    /\ totalChunks.kind = "inf"
    /\ splitI >= MaxSplits
    /\ \/ /\ splitI' = IF splitI = MaxSplits THEN MaxSplits + 1 ELSE MaxSplits
          /\ UNCHANGED <<pc, error>>
       \/ /\ pc' = "catch"
          /\ error' = "split"
          /\ UNCHANGED splitI
    /\ UNCHANGED <<cliVars, outsideVars>>
    /\ UNCHANGED <<entry, needSrt, language, chunkDuration, dirExists, files,
                   inputWritten, totalDuration, totalChunks, chunkPaths,
                   queue, activeCount, st, rawText, fmtOutcome, chunkResult,
                   completedCount, progressLog, issued, fmtCalls, requests,
                   outOfOrder, splitLog, outcome, result>>

\* after the loop: pLimit(MAX_CONCURRENCY), completedCount = 0, and
\* chunkPaths.map((path, i) => limit(...)) enqueues every chunk in order
Schedule ==
    /\ pc = "split"
    /\ ~LoopLt(splitI, totalChunks)
    /\ queue' = chunkPaths
    /\ activeCount' = 0
    /\ completedCount' = 0
    /\ st' = [i \in 0..(NumTasks - 1) |-> "queued"]
    /\ rawText' = [i \in 0..(NumTasks - 1) |-> << >>]
    /\ fmtOutcome' = [i \in 0..(NumTasks - 1) |-> "none"]
    /\ chunkResult' = [i \in 0..(NumTasks - 1) |->
                          [index |-> i, text |-> << >>, srtEntries |-> << >>]]
    /\ fmtCalls' = [i \in 0..(NumTasks - 1) |-> 0]
    /\ requests' = [i \in 0..(NumTasks - 1) |-> << >>]
    /\ pc' = "await"
    /\ UNCHANGED <<cliVars, outsideVars>>
    /\ UNCHANGED <<entry, needSrt, language, chunkDuration, dirExists, files,
                   inputWritten, totalDuration, totalChunks, chunkPaths,
                   splitI, progressLog, issued, outOfOrder, splitLog, error,
                   outcome, result>>

\* ------------------------------------------------- promise-job priorities

\* p-limit has a pending task and a free slot: its dequeue job runs next
StartNextEnabled ==
    /\ pc \in {"await", "settled"}
    /\ queue # << >>
    /\ SlotFree(activeCount)

\* variant: the tasks are awaited with Promise.allSettled
AllSettled == \A i \in Chunks : st[i] \in {"done", "failed"}

\* every promise handed to Promise.all is fulfilled
AllDone == \A i \in Chunks : st[i] = "done"
AnyFailed == \E i \in Chunks : st[i] = "failed"

\* the code that awaits the entry point has nothing to run: a user of the
\* library is not modelled further, and transcribeCommand is suspended in
\* its await until the entry point settles.  Once it has settled, the
\* continuation of transcribeCommand is a pending promise job, and once
\* process.exit has run there is no process
CallerWaiting ==
    \/ cliPc = "off"
    \/ cliPc = "pipeline" /\ pc # "settled"

\* no promise job is pending: the next I/O completion may be delivered
Quiet ==
    /\ pc \in {"await", "settled"}
    /\ CallerWaiting
    /\ ~StartNextEnabled
    /\ pc = "await" => (~AllDone /\ ~AnyFailed)

\* ------------------------------------------------------ asynchronous part

\* p-limit dequeues the next task and runs it: activeCount++, then the
\* synchronous head of transcribeChunk: readFileSync(chunkPath), new File,
\* and the call of client.audio.transcriptions.create.  When readFileSync
\* throws, the task's promise is rejected at once and p-limit's next()
\* takes activeCount back
StartNext ==
    /\ StartNextEnabled
    /\ LET i == DequeueTask(queue).task IN
         /\ queue' = DequeueTask(queue).rest
         /\ IF dirExists /\ i \in files
            THEN /\ st' = [st EXCEPT ![i] = "recog"]
                 /\ issued' = Append(issued, i)
                 /\ requests' = [requests EXCEPT ![i] =
                        Append(@, RecognitionRequest(i, needSrt, language))]
                 /\ activeCount' = activeCount + 1
            ELSE /\ st' = [st EXCEPT ![i] = "failed"]
                 /\ issued' = issued
                 /\ requests' = requests
                 /\ activeCount' = activeCount
    /\ UNCHANGED <<cliVars, outsideVars>>
    /\ UNCHANGED <<entry, needSrt, language, chunkDuration, pc, dirExists, files,
                   inputWritten, totalDuration, totalChunks, chunkPaths,
                   splitI, rawText, fmtOutcome, chunkResult, completedCount,
                   progressLog, fmtCalls, outOfOrder, splitLog, error, outcome, result>>

\* the tail of transcribeChunk in both branches: completedCount++, the
\* 'partial' notification, and the ChunkResult the promise resolves with;
\* p-limit's next() then frees the slot
Complete(i, text, entries) ==
    /\ completedCount' = completedCount + 1
    /\ progressLog' = Append(progressLog,
           [type |-> "partial",
            current |-> ProgressCurrent(completedCount', i),
            total |-> totalChunks])
    /\ outOfOrder' = (outOfOrder \/ \E j \in Chunks : j < i /\ st[j] # "done")
    /\ chunkResult' = [chunkResult EXCEPT ![i] =
                          [index |-> i, text |-> text, srtEntries |-> entries]]
    /\ st' = [st EXCEPT ![i] = "done"]
    /\ activeCount' = activeCount - 1

\* the recognition call of chunk i returns.  srt branch: the chunk is
\* complete.  text branch: formatWithAI issues the formatting request
RecogOk(i) ==
    /\ Quiet
    /\ st[i] = "recog"
    /\ rawText' = [rawText EXCEPT ![i] = RawText(i)]
    /\ IF needSrt
       THEN /\ \E n \in SegmentCounts :
                   Complete(i, RawText(i),
                            ConvertSegmentsToSrtEntries(
                                Segments(i, n, ChunkLength(i, totalDuration,
                                                           chunkDuration)),
                                i, chunkDuration, 1))
            /\ UNCHANGED <<fmtCalls, requests>>
       ELSE /\ st' = [st EXCEPT ![i] = "format"]
            /\ fmtCalls' = [fmtCalls EXCEPT ![i] = @ + 1]
            /\ requests' = [requests EXCEPT ![i] =
                   Append(@, FormattingRequest(RawText(i), language))]
            /\ UNCHANGED <<completedCount, progressLog, chunkResult,
                           activeCount, outOfOrder>>
    /\ UNCHANGED <<cliVars, outsideVars>>
    /\ UNCHANGED <<entry, needSrt, language, chunkDuration, pc, dirExists, files,
                   inputWritten, totalDuration, totalChunks, chunkPaths,
                   splitI, queue, fmtOutcome, issued, splitLog, error,
                   outcome, result>>

\* the recognition call of chunk i throws: transcribeChunk's promise is
\* rejected and p-limit's next() frees the slot
RecogFail(i) ==
    /\ Quiet
    /\ st[i] = "recog"
    /\ st' = [st EXCEPT ![i] = "failed"]
    /\ activeCount' = activeCount - 1
    /\ UNCHANGED requests
    /\ UNCHANGED <<cliVars, outsideVars>>
    /\ UNCHANGED <<entry, needSrt, language, chunkDuration, pc, dirExists, files,
                   inputWritten, totalDuration, totalChunks, chunkPaths,
                   splitI, queue, rawText, fmtOutcome, chunkResult,
                   completedCount, progressLog, issued, fmtCalls, outOfOrder, splitLog,
                   error, outcome, result>>

\* the formatting call of chunk i settles: "ok" with a content, "empty"
\* with an empty or absent content, "failed" when it throws
FormatDone(i) ==
    /\ Quiet
    /\ st[i] = "format"
    /\ \E o \in {"ok", "empty", "failed"} :
         /\ fmtOutcome' = [fmtOutcome EXCEPT ![i] = o]
         /\ Complete(i, FormatWithAI(rawText[i], o,
                           IF o = "ok" THEN FmtContent(i) ELSE << >>), << >>)
    /\ UNCHANGED requests
    /\ UNCHANGED <<cliVars, outsideVars>>
    /\ UNCHANGED <<entry, needSrt, language, chunkDuration, pc, dirExists, files,
                   inputWritten, totalDuration, totalChunks, chunkPaths,
                   splitI, queue, rawText, issued, fmtCalls, splitLog,
                   error, outcome, result>>

\* Promise.all resolves: sort, merge, return from transcribeFromPath
AllResolve ==
    /\ pc = "await"
    /\ ~StartNextEnabled
    /\ AllDone
    /\ LET results == PromiseAllValues(chunkResult, NumTasks)
       IN  result' = [text |-> MergeText(results),
                      srt |-> IF needSrt THEN MergeSrt(results) ELSE << >>]
    /\ pc' = "return"
    /\ UNCHANGED requests
    /\ UNCHANGED <<cliVars, outsideVars>>
    /\ UNCHANGED <<entry, needSrt, language, chunkDuration, dirExists, files,
                   inputWritten, totalDuration, totalChunks, chunkPaths,
                   splitI, queue, activeCount, st, rawText, fmtOutcome,
                   chunkResult, completedCount, progressLog, issued,
                   fmtCalls, outOfOrder, splitLog, error, outcome>>

\* Promise.all rejects with the first rejection: transcribeFromPath throws
AllReject ==
    /\ pc = "await"
    /\ ~StartNextEnabled
    /\ AnyFailed
    /\ error' = "transcription"
    /\ pc' = "catch"
    /\ UNCHANGED requests
    /\ UNCHANGED <<cliVars, outsideVars>>
    /\ UNCHANGED <<entry, needSrt, language, chunkDuration, dirExists, files,
                   inputWritten, totalDuration, totalChunks, chunkPaths,
                   splitI, queue, activeCount, st, rawText, fmtOutcome,
                   chunkResult, completedCount, progressLog, issued,
                   fmtCalls, outOfOrder, splitLog, outcome, result>>

\* catch (rethrow) and finally of the entry point: existsSync + rm -rf,
\* then the entry point's promise settles.  rm -rf on the directory the run
\* created is taken to succeed; the code only logs a failure of the cleanup
Finally ==
    /\ pc \in {"return", "catch"}
    /\ IF RunsCleanup(pc) /\ dirExists
       THEN /\ dirExists' = FALSE
            /\ files' = {}
            /\ inputWritten' = FALSE
       ELSE UNCHANGED <<dirExists, files, inputWritten>>
    /\ outcome' = IF pc = "return" THEN "returned" ELSE "thrown"
    /\ pc' = "settled"
    /\ UNCHANGED requests
    /\ UNCHANGED <<cliVars, outsideVars>>
    /\ UNCHANGED <<entry, needSrt, language, chunkDuration, totalDuration, totalChunks,
                   chunkPaths, splitI, queue, activeCount, st, rawText,
                   fmtOutcome, chunkResult, completedCount, progressLog,
                   issued, fmtCalls, outOfOrder, splitLog, error, result>>

\* ------------------------------------------------------ transcribeCommand

\* the catch block of transcribeCommand: progress.fail, console.error with
\* the message of the error, process.exit
CliCatch(e) ==
    /\ cliError' = e
    /\ cliPc' = "exit"
    /\ exitCode' = << ExitStatus(TRUE) >>

\* the head of transcribeCommand.  A URL (entry "buffer") is downloaded
\* with downloadAudio; a local path is checked with existsSync and stat
CliBegin ==
    /\ cliPc = "start"
    /\ \E o \in (IF entry = "buffer" THEN {"ok", "download"}
                                     ELSE {"ok", "notfound", "stat"}) :
         IF o = "ok"
         THEN /\ cliPc' = "pipeline"
              /\ UNCHANGED <<cliError, exitCode>>
         ELSE CliCatch(o)
    /\ UNCHANGED <<optSummary, optOutput, summaryDone, fileWritten, printed>>
    /\ UNCHANGED <<pipelineVars, outsideVars>>

\* summary is generated if requested, but never for the SRT format
SummaryWanted == optSummary /\ ~needSrt

\* the await of transcribeAudio / transcribeAudioFile resumes: the
\* rejection is caught, or the command goes on to the summary or the output
CliResume ==
    /\ cliPc = "pipeline"
    /\ pc = "settled"
    /\ IF outcome = "thrown"
       THEN CliCatch(error)
       ELSE /\ cliPc' = IF SummaryWanted THEN "summary" ELSE "output"
            /\ UNCHANGED <<cliError, exitCode>>
    /\ UNCHANGED <<optSummary, optOutput, summaryDone, fileWritten, printed>>
    /\ UNCHANGED <<pipelineVars, outsideVars>>

\* generateSummary settles: a summary, or it throws (the request failed or
\* the reply had no content)
CliSummary ==
    /\ cliPc = "summary"
    /\ \E o \in {"ok", "empty", "failed"} :
         IF o = "ok"
         THEN /\ summaryDone' = TRUE
              /\ cliPc' = "output"
              /\ UNCHANGED <<cliError, exitCode>>
         ELSE /\ CliCatch("summary")
              /\ UNCHANGED summaryDone
    /\ UNCHANGED <<optSummary, optOutput, fileWritten, printed>>
    /\ UNCHANGED <<pipelineVars, outsideVars>>

\* formatOutput and the output: writeFile(options.output, output) or
\* console.log(output).  A writeFile that fails may have created the file.
\* When transcribeCommand returns, nothing is pending and the process ends
CliOutput ==
    /\ cliPc = "output"
    /\ IF optOutput
       THEN \/ /\ fileWritten' = TRUE
               /\ cliPc' = "done"
               /\ exitCode' = << ExitStatus(FALSE) >>
               /\ UNCHANGED cliError
            \/ /\ fileWritten' \in BOOLEAN
               /\ CliCatch("writeFile")
       ELSE /\ cliPc' = "done"
            /\ exitCode' = << ExitStatus(FALSE) >>
            /\ UNCHANGED <<cliError, fileWritten>>
    /\ printed' = ~optOutput
    /\ UNCHANGED <<optSummary, optOutput, summaryDone>>
    /\ UNCHANGED <<pipelineVars, outsideVars>>

Next ==
    \/ MkDir
    \/ WriteInput
    \/ Probe
    \/ Split
    \/ SplitBeyond
    \/ Schedule
    \/ StartNext
    \/ \E i \in Chunks : RecogOk(i)
    \/ \E i \in Chunks : RecogFail(i)
    \/ \E i \in Chunks : FormatDone(i)
    \/ AllResolve
    \/ AllReject
    \/ Finally
    \/ CliBegin
    \/ CliResume
    \/ CliSummary
    \/ CliOutput

Spec == Init /\ [][Next]_vars

\* Spec with progress: synchronous code runs on, the event loop runs every
\* pending promise job, and every external call (ffprobe, ffmpeg, a
\* recognition or formatting request, the summary, the file write) comes
\* back with success or failure.  The only cycle of the state graph is the
\* endless split loop, so weak fairness of Next leaves no enabled step
\* waiting forever
SpecLive == Init /\ [][Next]_vars /\ WF_vars(Next)

TypeOK ==
    /\ activeCount \in 0..MAX_CONCURRENCY
    /\ completedCount \in Nat

\* ================================================================ claims

InFlight == {i \in Chunks : st[i] = "recog"}
IsPartial(e) == e.type = "partial"
Partials == SelectSeq(progressLog, IsPartial)
NoResult == [text |-> << >>, srt |-> << >>]

\* C1: at every instant at most MAX_CONCURRENCY = 3 chunks have a
\* recognition request that was issued and has not completed, for every
\* number of chunks and every completion order.
C1_AtMostKOutstanding == Cardinality(InFlight) <= MAX_CONCURRENCY

\* three requests outstanding after an earlier one has completed, with
\* further chunks still waiting behind the limit
C1_Witness ==
    /\ Cardinality(InFlight) = MAX_CONCURRENCY
    /\ queue # << >>
    /\ completedCount >= 1

\* C2: when the recognition call of any chunk has failed, the entry point
\* does not return a TranscriptionResult: it throws, and no text of a
\* completed chunk reaches a returned value.
C2_FailureIsFatal ==
    AnyFailed =>
        /\ pc # "return"
        /\ outcome # "returned"
        /\ result = NoResult
        /\ pc = "settled" => outcome = "thrown"

\* the run has thrown after one chunk failed and another had completed
C2_Witness ==
    /\ pc = "settled"
    /\ outcome = "thrown"
    /\ error = "transcription"
    /\ \E i, j \in Chunks : st[i] = "failed" /\ st[j] = "done"

RECURSIVE TextUpTo(_)
TextUpTo(n) ==
    IF n = 0 THEN << >>
    ELSE IF n = 1 THEN chunkResult[0].text
    ELSE TextUpTo(n - 1) \o Space \o chunkResult[n - 1].text

\* the subtitle entries in ascending chunk index, numbered from 1
RECURSIVE EntriesUpTo(_)
EntriesUpTo(n) ==
    IF n = 0 THEN << >>
    ELSE LET prev == EntriesUpTo(n - 1)
             es == chunkResult[n - 1].srtEntries
         IN  prev \o [e \in 1..Len(es) |->
                         [es[e] EXCEPT !.index = Len(prev) + e]]

\* C4: the returned text is the chunks' texts in ascending chunk index
\* joined by a single space, and the returned subtitles are the chunks'
\* entries in ascending chunk index, whatever order the chunks completed in.
C4_OrderIndependent ==
    outcome = "returned" =>
        /\ result.text = TextUpTo(NumTasks)
        /\ result.srt = IF needSrt
                        THEN EntriesToSrtString(EntriesUpTo(NumTasks))
                        ELSE << >>

\* a subtitle run has returned after its chunks completed out of order
C4_Witness ==
    /\ outcome = "returned"
    /\ outOfOrder
    /\ needSrt
    /\ NumTasks >= 3
    /\ Len(result.srt) >= 2

\* C5: the 'partial' notifications carry current = 1, 2, ... in that order,
\* each once, with total = N, the counter equals their number, and a run
\* that returns has issued exactly N of them.
C5_ProgressCounts ==
    /\ \A k \in 1..Len(Partials) :
          /\ Partials[k].current = k
          /\ Partials[k].total = [kind |-> "num", n |-> NumTasks]
    /\ completedCount = Len(Partials)
    /\ outcome = "returned" => Len(Partials) = NumTasks

\* a run of more than K chunks has returned after out-of-order completions
C5_Witness ==
    /\ outcome = "returned"
    /\ NumTasks > MAX_CONCURRENCY
    /\ outOfOrder
    /\ Len(Partials) = NumTasks

\* C6: the recognition requests are issued in ascending chunk index: the
\* k-th request issued is the one of chunk k-1.
C6_SubmissionAscending ==
    \A k \in 1..Len(issued) : issued[k] = k - 1

\* every request of a run of more than K chunks was issued, and the chunks
\* completed out of order
C6_Witness ==
    /\ NumTasks > MAX_CONCURRENCY
    /\ Len(issued) = NumTasks
    /\ outOfOrder

\* C7: the splits run one at a time in index order, and when the first
\* recognition request is issued all N chunks have been split.
C7_SplitBeforeRecognition ==
    /\ \A k \in 1..Len(splitLog) : splitLog[k].index = k - 1
    /\ issued # << >> =>
          /\ pc \notin {"start", "write", "probe", "split"}
          /\ totalChunks.kind = "num"
          /\ NumTasks = totalChunks.n
          /\ Len(splitLog) = NumTasks

\* the first recognition request of a run of several chunks was just issued
C7_Witness ==
    /\ Len(issued) = 1
    /\ NumTasks >= 3
    /\ st[0] = "recog"

ReplyContent(i) == IF fmtOutcome[i] = "ok" THEN FmtContent(i) ELSE << >>

\* C9 as stated: in a text-only run that returns, a chunk whose formatting
\* call failed contributes its raw text and every other chunk contributes
\* the text its formatting call returned.
C9_Original ==
    (outcome = "returned" /\ ~needSrt) =>
        \A i \in Chunks :
            chunkResult[i].text =
                IF fmtOutcome[i] = "failed" THEN RawText(i)
                ELSE ReplyContent(i)

\* C9 amended: a chunk whose formatting call failed, or returned an empty
\* or absent content, contributes its raw text; every other chunk
\* contributes the content its formatting call returned; and the run fails
\* only on a chunk whose formatting call never settled.
C9_FormatFallback ==
    /\ \A i \in Chunks :
          fmtOutcome[i] # "none" =>
              /\ st[i] = "done"
              /\ chunkResult[i].text =
                     IF fmtOutcome[i] = "ok" THEN FmtContent(i)
                     ELSE RawText(i)
    /\ (pc = "settled" /\ Chunks # {} /\ ~needSrt
          /\ \A i \in Chunks : fmtOutcome[i] # "none")
           => outcome = "returned"
    /\ (outcome = "returned" /\ ~needSrt) =>
           /\ \A i \in Chunks : fmtOutcome[i] # "none"
           /\ result.text = TextUpTo(NumTasks)

\* a text-only run has returned although the formatting call of exactly
\* one chunk failed
C9_Witness ==
    /\ outcome = "returned"
    /\ ~needSrt
    /\ NumTasks >= 2
    /\ \E i \in Chunks :
          /\ fmtOutcome[i] = "failed"
          /\ \A j \in Chunks \ {i} : fmtOutcome[j] = "ok"

\* the probe has returned a duration
Probed == progressLog # << >>

\* C10: with chunkDuration <= 0 or totalDuration <= 0 no chunk is split,
\* no recognition request is issued and no result is returned.
C10_ConfigError ==
    (chunkDuration <= 0 \/ (Probed /\ totalDuration <= 0)) =>
        /\ splitLog = << >>
        /\ issued = << >>
        /\ outcome # "returned"

\* the run was given usable durations: chunkDuration > 0 and the probe
\* returned totalDuration > 0
ValidDurations == chunkDuration > 0 /\ Probed /\ totalDuration > 0

\* C11: for totalDuration > 0 and chunkDuration > 0 the number of chunks
\* planned is N = ceil(totalDuration / chunkDuration), i.e. the N with
\* (N-1) * chunkDuration < totalDuration <= N * chunkDuration, the chunks
\* split and scheduled are exactly 0..N-1 in order without gap or
\* duplicate, and chunk i starts at i * chunkDuration; 650 and 300 give 3.
C11_ChunkPlan ==
    /\ CeilDiv(650, 300) = [kind |-> "num", n |-> 3]
    /\ ValidDurations =>
          /\ totalChunks.kind = "num"
          /\ (totalChunks.n - 1) * chunkDuration < totalDuration
          /\ totalDuration <= totalChunks.n * chunkDuration
          /\ Len(splitLog) <= totalChunks.n
          /\ \A k \in 1..Len(splitLog) :
                /\ splitLog[k].index = k - 1
                /\ splitLog[k].start = (k - 1) * chunkDuration
          /\ pc \in {"await", "return"} =>
                /\ NumTasks = totalChunks.n
                /\ Chunks = 0..(totalChunks.n - 1)
                /\ \A k \in 1..NumTasks : chunkPaths[k] = k - 1

\* a duration that is not a multiple of the chunk length was planned and
\* scheduled: 5 and 2 give the three chunks 0, 1, 2
C11_Witness ==
    /\ pc = "await"
    /\ chunkDuration = 2
    /\ totalDuration = 5
    /\ NumTasks = 3

\* the time range ffmpeg is asked for in the k-th split: [from, to)
RequestedFrom(k) == splitLog[k].start
RequestedTo(k) == splitLog[k].start + splitLog[k].t

\* the requested ranges start at 0 and each starts where the one before ends
RangesContiguous ==
    /\ splitLog # << >> => RequestedFrom(1) = 0
    /\ \A k \in 2..Len(splitLog) : RequestedFrom(k) = RequestedTo(k - 1)

\* C12 as stated: the requested ranges are contiguous and exactly cover
\* [0, totalDuration): the range requested for the final chunk ends at
\* totalDuration.
C12_Original ==
    (ValidDurations /\ pc = "await") =>
        /\ RangesContiguous
        /\ RequestedTo(Len(splitLog)) = totalDuration

\* C12 amended: every range requested has the full length chunkDuration,
\* the final one included; the requested ranges are contiguous and
\* non-overlapping, the final one starts before totalDuration and ends at
\* N * chunkDuration >= totalDuration, less than one chunkDuration past it.
C12_RequestedRanges ==
    ValidDurations =>
        /\ RangesContiguous
        /\ \A k \in 1..Len(splitLog) :
              /\ splitLog[k].t = chunkDuration
              /\ RequestedFrom(k) < RequestedTo(k)
              /\ RequestedFrom(k) < totalDuration
        /\ pc = "await" =>
              /\ RequestedTo(Len(splitLog)) = totalChunks.n * chunkDuration
              /\ RequestedTo(Len(splitLog)) >= totalDuration
              /\ RequestedTo(Len(splitLog)) - totalDuration < chunkDuration

\* all chunks of a duration that is not a multiple of the chunk length were
\* split: the final range requested is [4, 6) for a source of length 5
C12_Witness ==
    /\ pc = "await"
    /\ chunkDuration = 2
    /\ totalDuration = 5
    /\ Len(splitLog) = 3
    /\ RequestedTo(3) = 6

\* the number of segments of the chunks 0..n-1
RECURSIVE SegmentsUpTo(_)
SegmentsUpTo(n) ==
    IF n = 0 THEN 0
    ELSE SegmentsUpTo(n - 1) + Len(chunkResult[n - 1].srtEntries)

SubtitlesReturned == outcome = "returned" /\ needSrt

\* C13: every chunk numbers its own entries from 1 (the temporary
\* numbering), and in a subtitle run that returns the entries of the output
\* carry the numbers 1, 2, ..., M in output order, M being the number of
\* segments of all chunks together.
C13_SequenceNumbers ==
    /\ \A i \in Chunks :
          \A s \in 1..Len(chunkResult[i].srtEntries) :
              chunkResult[i].srtEntries[s].index = s
    /\ SubtitlesReturned =>
          /\ Len(result.srt) = SegmentsUpTo(NumTasks)
          /\ \A e \in 1..Len(result.srt) : result.srt[e].index = e

\* a subtitle run has returned after out-of-order completions, and two of
\* its chunks have two segments or more, so that the temporary numbers 1, 2
\* occur twice
C13_Witness ==
    /\ SubtitlesReturned
    /\ outOfOrder
    /\ \E i, j \in Chunks :
          /\ i < j
          /\ Len(chunkResult[i].srtEntries) >= 2
          /\ Len(chunkResult[j].srtEntries) >= 2

\* the segments the service returned for chunk i, recovered from the number
\* of entries the chunk has
SegmentsOf(i) ==
    Segments(i, Len(chunkResult[i].srtEntries),
             ChunkLength(i, totalDuration, chunkDuration))

\* the chunk that the e-th entry of the output comes from, and its place in
\* that chunk
RECURSIVE ChunkOfEntry(_, _)
ChunkOfEntry(e, i) ==
    IF e <= Len(chunkResult[i].srtEntries) THEN [chunk |-> i, s |-> e]
    ELSE ChunkOfEntry(e - Len(chunkResult[i].srtEntries), i + 1)

\* C14: the start and end time of every subtitle entry is the chunk-local
\* time of its segment plus the offset at which its chunk was cut from the
\* source, index * chunkDuration; the output renders these shifted times.
\* Local start 10.5 in chunk 2 with chunkDuration 300 gives 610.5.
C14_TimeShift ==
    /\ ConvertSegmentsToSrtEntries(
           << [start |-> Secs(21) \div 2, end |-> Secs(12), text |-> << >>] >>,
           2, 300, 1)[1].startTime = Secs(1221) \div 2
    /\ needSrt =>
          \A i \in Chunks :
              \A s \in 1..Len(chunkResult[i].srtEntries) :
                  LET entry_ == chunkResult[i].srtEntries[s]
                      shift == Secs(splitLog[i + 1].start)
                  IN  /\ splitLog[i + 1].index = i
                      /\ entry_.startTime = SegmentsOf(i)[s].start + shift
                      /\ entry_.endTime = SegmentsOf(i)[s].end + shift
    /\ SubtitlesReturned =>
          \A e \in 1..Len(result.srt) :
              LET at == ChunkOfEntry(e, 0)
                  shift == Secs(splitLog[at.chunk + 1].start)
              IN  /\ result.srt[e].from =
                         FormatSrtTime(SegmentsOf(at.chunk)[at.s].start + shift)
                  /\ result.srt[e].to =
                         FormatSrtTime(SegmentsOf(at.chunk)[at.s].end + shift)

\* a subtitle run has returned with an entry of a chunk other than the
\* first, whose offset is not zero
C14_Witness ==
    /\ SubtitlesReturned
    /\ \E i \in Chunks :
          /\ i >= 2
          /\ splitLog[i + 1].start > 0
          /\ Len(chunkResult[i].srtEntries) >= 2

\* the number a digit string denotes
RECURSIVE DigitsValue(_)
DigitsValue(ds) ==
    IF ds = << >> THEN 0
    ELSE DigitsValue(SubSeq(ds, 1, Len(ds) - 1)) * 10 + ds[Len(ds)]

\* the time in milliseconds that a rendered time HH:MM:SS,mmm denotes
SrtTimeMillis(f) ==
    ((DigitsValue(f.hours) * 60 + DigitsValue(f.minutes)) * 60
         + DigitsValue(f.secs)) * 1000 + DigitsValue(f.millis)

\* C15: in the output of a subtitle run that returns, the start time of an
\* entry is never before the start time of the entry before it, the first
\* entry of a chunk after the last entry of the chunk before included.
C15_StartsNonDecreasing ==
    SubtitlesReturned =>
        \A e \in 1..(Len(result.srt) - 1) :
            SrtTimeMillis(result.srt[e].from)
                <= SrtTimeMillis(result.srt[e + 1].from)

\* a subtitle run has returned after out-of-order completions with a chunk
\* of two entries or more followed by a chunk that has entries too
C15_Witness ==
    /\ SubtitlesReturned
    /\ outOfOrder
    /\ \E i \in Chunks :
          /\ i + 1 \in Chunks
          /\ Len(chunkResult[i].srtEntries) >= 2
          /\ Len(chunkResult[i + 1].srtEntries) >= 1

\* --------------------------------------------- formatSrtTime on its own

\* largest whole number of seconds within the hour of an argument
MaxFmtSeconds == 130

\* the hours of the arguments: below 100, where HH has two digits, and
\* small enough for the time in ticks to stay a 32-bit integer
FmtHours == {0, 1, 12, 27}

\* the fractions of a second of the arguments, in ticks: none, the smallest,
\* 0.3, just below and just above a half millisecond under the next full
\* second, and the largest.  A fraction that lies exactly between two
\* milliseconds is left out
FmtFractions == {0, 1, 3000, 4994, 9994, 9996, 9999}

\* the arguments of formatSrtTime explored
FmtInputs ==
    { Secs(h * 3600 + sec) + f :
          h \in FmtHours, sec \in 0..MaxFmtSeconds, f \in FmtFractions }

\* a caller is about to call formatSrtTime(fmtIn); no pipeline run is going
InitFmt ==
    /\ fmtIn \in FmtInputs
    /\ fmtOut = << >>
    /\ RunsIdle
    /\ entry = "file"
    /\ needSrt = TRUE
    /\ language = "auto"
    /\ chunkDuration = DefaultChunkDuration
    /\ CliOff
    /\ Fresh

\* the call formatSrtTime(fmtIn) returns
FormatTime ==
    /\ fmtOut = << >>
    /\ fmtOut' = << FormatSrtTime(fmtIn) >>
    /\ UNCHANGED <<fmtIn, pipelineVars, cliVars, runsVars>>

NextFmt == FormatTime

SpecFmt == InitFmt /\ [][NextFmt]_vars

Digits == 0..9

\* a digit string of exactly w digits
IsDigits(ds, w) == Len(ds) = w /\ \A k \in 1..Len(ds) : ds[k] \in Digits

\* HH:MM:SS,mmm: two digits each of hours, minutes and seconds, minutes and
\* seconds below 60, three digits of milliseconds
WellFormedSrtTime(f) ==
    /\ IsDigits(f.hours, 2)
    /\ IsDigits(f.minutes, 2) /\ DigitsValue(f.minutes) < 60
    /\ IsDigits(f.secs, 2) /\ DigitsValue(f.secs) < 60
    /\ IsDigits(f.millis, 3)

\* C16: formatSrtTime renders every non-negative time (below 100 hours) as
\* HH:MM:SS,mmm with two digits of hours, minutes and seconds and exactly
\* three digits of milliseconds, a fraction that rounds up to a full second
\* included; 125.3 seconds gives 00:02:05,300.
C16_WellFormedTime ==
    /\ FormatSrtTime(Secs(125) + 3000) =
           [hours |-> << 0, 0 >>, minutes |-> << 0, 2 >>,
            secs |-> << 0, 5 >>, millis |-> << 3, 0, 0 >>]
    /\ \A k \in 1..Len(fmtOut) : WellFormedSrtTime(fmtOut[k])

\* ------------------------------------------- requests to remote services

\* the requests of one kind made for chunk i, in order
RequestsOfKind(i, kind) ==
    SelectSeq(requests[i], LAMBDA q : q.kind = kind)

\* the recognition call of chunk i has returned a transcription
RecognitionSucceeded(i) == rawText[i] # << >>

\* C17: in a subtitle run no formatting call is issued for any chunk and
\* every recognition request asks for time-aligned segments (verbose_json);
\* in a text-only run a chunk has exactly one formatting call once its
\* recognition call has succeeded and none before, and no recognition
\* request asks for segments.
C17_FormatXorSubtitles ==
    \A i \in Chunks :
        /\ Len(RequestsOfKind(i, "recognition")) <= 1
        /\ fmtCalls[i] = Len(RequestsOfKind(i, "formatting"))
        /\ needSrt =>
              /\ fmtCalls[i] = 0
              /\ \A k \in 1..Len(requests[i]) :
                    /\ requests[i][k].kind = "recognition"
                    /\ requests[i][k].response_format = "verbose_json"
        /\ ~needSrt =>
              /\ fmtCalls[i] = IF RecognitionSucceeded(i) THEN 1 ELSE 0
              /\ chunkResult[i].srtEntries = << >>
              /\ \A k \in 1..Len(requests[i]) :
                    requests[i][k].kind = "recognition" =>
                        requests[i][k].response_format = "text"

\* a text-only run in which a chunk has been formatted, the recognition of
\* another chunk has failed and a third chunk waits for its recognition
C17_Witness ==
    /\ ~needSrt
    /\ \E i, j, k \in Chunks :
          /\ st[i] = "done" /\ fmtCalls[i] = 1
          /\ st[j] = "failed" /\ Len(requests[j]) = 1
          /\ st[k] = "recog"

\* the routing of C20 with its second clause as a parameter: P(q) is what a
\* recognition request q of a run with an explicit language must satisfy
LanguageRouting(P(_)) ==
    /\ PromptParam("zh") = PromptParam("chinese")
    /\ SystemPrompt("zh") = SystemPrompt("chinese")
    /\ UserPrompt("zh", RawText(0)) = UserPrompt("chinese", RawText(0))
    /\ \A i \in Chunks :
          \A k \in 1..Len(requests[i]) :
              LET q == requests[i][k] IN
              /\ (q.kind = "recognition" /\ language = "auto") =>
                     (q.language = Undefined /\ q.prompt = Undefined)
              /\ (q.kind = "recognition" /\ language # "auto") => P(q)
              /\ (q.kind = "recognition" /\ language \in {"zh", "chinese"}) =>
                     q.prompt = PromptParam("zh")
              /\ (q.kind = "formatting" /\ language \in {"zh", "chinese"}) =>
                     /\ q.system = SystemPrompt("zh")
                     /\ q.user = UserPrompt("zh", q.user.text)

StageFailures ==
    {"download", "notfound", "stat", "mkdir", "write", "client", "probe",
     "split", "transcription", "summary"}

\* every stage the options ask for has succeeded
AllStagesSucceeded ==
    /\ outcome = "returned"
    /\ SummaryWanted => summaryDone
    /\ cliError \in {"none", "writeFile"}

\* C18: in transcribeCommand, when a stage before the output fails
\* (download, probe, split, a chunk's recognition call, the summary, ...)
\* no output file is written, no transcript is printed and the process ends
\* with exit status 1, at once; the output file is written, and the output
\* printed, only after every stage has succeeded.
C18_FatalFailure ==
    /\ cliError \in StageFailures =>
          /\ ~fileWritten
          /\ ~printed
          /\ exitCode = << 1 >>
    /\ (cliPc # "off" /\ outcome = "thrown") =>
          /\ cliPc \in {"pipeline", "exit"}
          /\ cliPc = "exit" => cliError = error
    /\ (cliError # "none") <=> (exitCode = << 1 >>)
    /\ fileWritten => (AllStagesSucceeded /\ optOutput)
    /\ printed => (AllStagesSucceeded /\ ~optOutput /\ exitCode = << 0 >>)

\* the command was asked to write a file and has exited with status 1 on
\* the failure of one chunk, after another chunk had been transcribed
C18_Witness ==
    /\ cliPc = "exit"
    /\ cliError = "transcription"
    /\ optOutput
    /\ exitCode = << 1 >>
    /\ \E i, j \in Chunks : st[i] = "done" /\ st[j] = "failed"

\* ----------------------------- concurrent runs in one working directory

\* number of identifiers uuidv4 draws from in the model
MaxIds == 3
\* largest number of chunks of a run
MaxRunChunks == 2

Runs == {1, 2}
RunIds == 1..MaxIds

\* a path is the sequence of its components under process.cwd()
BaseDir == << "temp" >>

\* variant: every run works in baseDir itself
TempDirShared(sessionId) == BaseDir

\* const tempDir = join(baseDir, sessionId)
TempDir(sessionId) == BaseDir \o << sessionId >>

\* join(tempDir, `chunk-${i + 1}${extension}`)
ChunkPath(tempDir, i) == tempDir \o << i + 1 >>

\* path q is p or lies under p
IsUnder(q, p) == Len(q) >= Len(p) /\ SubSeq(q, 1, Len(p)) = p

\* rm -rf "p": p and everything under it are gone
RmRf(d, p) ==
    [dirs |-> { q \in d.dirs : ~IsUnder(q, p) },
     files |-> { q \in d.files : ~IsUnder(q, p) }]

\* mkdirSync(p, { recursive: true }) after the existsSync checks
MkDirs(d, p) == [d EXCEPT !.dirs = @ \cup {BaseDir, p}]

\* two calls of an entry point are about to be made in the same working
\* directory, in one process or in two; temp/ may be there already
InitRuns ==
    /\ runs = [r \in Runs |->
                  [pc |-> "start", sessionId |-> 0, made |-> {}, i |-> 0]]
    /\ disk \in {[dirs |-> {}, files |-> {}],
                 [dirs |-> {BaseDir}, files |-> {}]}
    /\ drawn = {}
    /\ FmtIdle
    /\ entry = "file"
    /\ needSrt = FALSE
    /\ language = "auto"
    /\ chunkDuration = DefaultChunkDuration
    /\ CliOff
    /\ Fresh

RunDir(r) == TempDir(runs[r].sessionId)

\* const sessionId = uuidv4(): an identifier that was not returned before
\* (version-4 UUIDs have 122 random bits; a repetition is not modelled)
RunUuid(r) ==
    /\ runs[r].pc = "start"
    /\ \E id \in RunIds \ drawn :
         /\ runs' = [runs EXCEPT ![r].sessionId = id, ![r].pc = "mkdir"]
         /\ drawn' = drawn \cup {id}
    /\ UNCHANGED <<disk, fmtVars, pipelineVars, cliVars>>

\* existsSync / mkdirSync of baseDir and tempDir; a throw goes to finally
RunMkDir(r) ==
    /\ runs[r].pc = "mkdir"
    /\ \/ /\ disk' = MkDirs(disk, RunDir(r))
          /\ runs' = [runs EXCEPT ![r].pc = "split"]
       \/ /\ runs' = [runs EXCEPT ![r].pc = "cleanup"]
          /\ UNCHANGED disk
    /\ UNCHANGED <<drawn, fmtVars, pipelineVars, cliVars>>

\* one iteration of the split loop: ffmpeg writes the next chunk file into
\* tempDir, or fails (as it does when tempDir is missing); or the loop ends
RunSplit(r) ==
    /\ runs[r].pc = "split"
    /\ \/ /\ runs[r].i < MaxRunChunks
          /\ RunDir(r) \in disk.dirs
          /\ disk' = [disk EXCEPT !.files =
                         @ \cup {ChunkPath(RunDir(r), runs[r].i)}]
          /\ runs' = [runs EXCEPT ![r].made = @ \cup {runs[r].i},
                                  ![r].i = @ + 1]
       \/ /\ runs[r].i < MaxRunChunks
          /\ runs' = [runs EXCEPT ![r].pc = "cleanup"]
          /\ UNCHANGED disk
       \/ /\ RunDir(r) \in disk.dirs
          /\ runs' = [runs EXCEPT ![r].pc = "read", ![r].i = 0]
          /\ UNCHANGED disk
    /\ UNCHANGED <<drawn, fmtVars, pipelineVars, cliVars>>

\* transcribeChunk of the next chunk: readFileSync(chunkPath) throws when
\* the file is missing, and the remote call may fail; after the last chunk
\* the run returns
RunRead(r) ==
    /\ runs[r].pc = "read"
    /\ IF runs[r].i \in runs[r].made
       THEN IF ChunkPath(RunDir(r), runs[r].i) \in disk.files
            THEN \/ runs' = [runs EXCEPT ![r].i = @ + 1]
                 \/ runs' = [runs EXCEPT ![r].pc = "cleanup"]
            ELSE runs' = [runs EXCEPT ![r].pc = "cleanup"]
       ELSE runs' = [runs EXCEPT ![r].pc = "cleanup"]
    /\ UNCHANGED <<disk, drawn, fmtVars, pipelineVars, cliVars>>

\* finally: if (existsSync(tempDir)) rm -rf "tempDir"
RunCleanup(r) ==
    /\ runs[r].pc = "cleanup"
    /\ disk' = IF RunDir(r) \in disk.dirs THEN RmRf(disk, RunDir(r)) ELSE disk
    /\ runs' = [runs EXCEPT ![r].pc = "settled"]
    /\ UNCHANGED <<drawn, fmtVars, pipelineVars, cliVars>>

NextRuns ==
    \E r \in Runs :
        \/ RunUuid(r)
        \/ RunMkDir(r)
        \/ RunSplit(r)
        \/ RunRead(r)
        \/ RunCleanup(r)

SpecRuns == InitRuns /\ [][NextRuns]_vars

\* run r has made its workspace and has not reached its cleanup
RunInProgress(r) == runs[r].pc \in {"split", "read"}

\* run r has a workspace directory
HasWorkspace(r) == runs[r].pc \notin {"start", "mkdir"}

\* C19: two runs in the same working directory never have the same
\* workspace directory, and as long as a run is in progress its workspace
\* and the chunk files it has made exist, whatever the other run cleans up.
C19_RunsIsolated ==
    \A r \in DOMAIN runs :
        /\ \A q \in DOMAIN runs :
              (q # r /\ runs[q].pc # "start" /\ runs[r].pc # "start") =>
                  /\ RunDir(q) # RunDir(r)
                  /\ ~IsUnder(RunDir(q), RunDir(r))
        /\ RunInProgress(r) =>
              /\ RunDir(r) \in disk.dirs
              /\ \A i \in runs[r].made :
                    ChunkPath(RunDir(r), i) \in disk.files

\* one run has removed its workspace while the other, with its chunk files
\* made, is still reading them
C19_Witness ==
    \E r, q \in DOMAIN runs :
        /\ runs[r].pc = "settled"
        /\ runs[r].made # {}
        /\ RunDir(r) \notin disk.dirs
        /\ runs[q].pc = "read"
        /\ runs[q].i = 1
        /\ runs[q].made = 0..(MaxRunChunks - 1)

\* chunk i leaves p-limit's queue in this step: transcribeChunk starts and
\* executes readFileSync(chunkPath)
ReadsChunk(i) == st[i] = "queued" /\ st'[i] # "queued"

\* C21: every read of a chunk file happens while the workspace still
\* exists: the file was made by the split loop and has not been removed by
\* the cleanup of the entry point, on every path, also when another chunk
\* failed while this one was waiting behind the concurrency limit.
C21_ReadBeforeCleanup ==
    [][\A i \in Chunks : ReadsChunk(i) => (dirExists /\ i \in files)]_vars

\* C22: once the entry point has settled, the progress callback is not
\* invoked again and completedCount is not incremented again, also when the
\* run failed while requests of other chunks were in flight or queued.
C22_SilentAfterSettle ==
    [][pc = "settled" =>
           /\ progressLog' = progressLog
           /\ completedCount' = completedCount]_vars

\* C23: when every external call comes back, every run that has started
\* eventually settles; and once the chunks are scheduled, either a call
\* fails or every chunk 0..N-1 is eventually dispatched and completed, also
\* when N exceeds MAX_CONCURRENCY: no chunk is left waiting in the queue.
C23_EventuallySettles ==
    /\ (pc # "start") ~> (pc = "settled")
    /\ (pc = "await") ~> (AnyFailed \/ AllDone)

\* the chunks with a remote request outstanding: the recognition request
\* (st = "recog") or, in a text-only run, the formatting request ("format")
HoldsSlot == {i \in Chunks : st[i] \in {"recog", "format"}}

\* the chunks whose formatting call has finished
Formatted == {i \in Chunks : st[i] = "done"}

\* the chunks whose recognition request was issued and has failed
RecognitionFailed == {i \in Chunks : st[i] = "failed" /\ requests[i] # << >>}

\* in a text-only run the slots taken are those of the chunks between the
\* start of their recognition request and the end of their formatting call,
\* they are at most MAX_CONCURRENCY, and the requests started so far are at
\* most MAX_CONCURRENCY more than the chunks in the set released
SlotsHeld(released) ==
    ~needSrt =>
        /\ activeCount = Cardinality(HoldsSlot)
        /\ Cardinality(HoldsSlot) <= MAX_CONCURRENCY
        /\ Len(issued) <= MAX_CONCURRENCY + Cardinality(released)

\* C24 as written: in a text-only run a chunk holds its slot from the start
\* of its recognition request until its formatting call has completed, the
\* outstanding requests (recognition plus formatting) are at most
\* MAX_CONCURRENCY, and a further recognition request starts only after the
\* formatting call of an earlier chunk has finished.
C24_Original == SlotsHeld(Formatted)

\* C24: as C24_Original, with the slot of a chunk also released when its
\* recognition request fails: a further recognition request starts only
\* after an earlier chunk's formatting call has finished or an earlier
\* chunk's recognition request has failed.
C24_SlotHeldThroughFormatting == SlotsHeld(Formatted \cup RecognitionFailed)

\* a text-only run with all three slots taken, one of them by a chunk that
\* is being formatted, a fourth request started after a formatting call
\* finished, and a chunk still waiting
C24_Witness ==
    /\ ~needSrt
    /\ Cardinality(HoldsSlot) = MAX_CONCURRENCY
    /\ \E i \in HoldsSlot : st[i] = "format"
    /\ Len(issued) > MAX_CONCURRENCY
    /\ Formatted # {}
    /\ RecognitionFailed = {}
    /\ queue # << >>

====
